---- MODULE Spec2Model ----
(***************************************************************************)
(* Model of route53-zone.go: synchronising a declared zone document to a   *)
(* Route53 hosted zone (deltaBuilder and its helpers), building a change   *)
(* from one declared record-set (getChange), and extracting a hosted zone  *)
(* into a document (getRoute53ZoneConfig).                                 *)
(*                                                                         *)
(* Go values are represented as follows.                                   *)
(*   - a slice is [notNil |-> BOOLEAN, elems |-> sequence]: Go tells a nil *)
(*     slice from an empty one (getChange tests `!= nil`);                 *)
(*   - a pointer field of the SDK (TTL, AliasTarget) and an optional       *)
(*     return value are sequences of length 0 (nil) or 1;                  *)
(*   - Go indexes from 0 and TLA+ from 1: Go's `for i := 1` is index 2.    *)
(***************************************************************************)
EXTENDS Integers, Sequences, FiniteSets, TLC

VARIABLES
    config,     \* the declared document (route53Zone) of the run
    zone,       \* the hosted zone held by the service: a set of record sets
    records,    \* what listAllRecordSets returned to the run
    changes,    \* the change batch deltaBuilder assembled
    pc,         \* where the run stands
    fatalName,  \* the record name log.Fatalf reported, when the run aborted
    submitted,  \* batches handed to createResourceRecordSetChange so far
    applied,    \* the batch the service applied last, <<>> when none
    resync,     \* TRUE when the zone is what an earlier run of this document left
    file,       \* the YAML file written by configBuildAllConfigs, <<>> when none
    lookedUp,   \* what ListHostedZonesByName answered this run, <<>> when not asked
    listCall,   \* the zone id deltaBuilder called listAllRecordSets with, else <<>>
    callArg,    \* getChange's arguments, for the calls checked on their own
    callRet     \* getChange's result for callArg

vars == <<config, zone, records, changes, pc, fatalName, submitted, applied,
          resync, file, lookedUp, listCall, callArg, callRet>>

----------------------------------------------------------------------------
(* Bounds and input domains *)

MaxDeclared == 3
MaxLive == 2
MaxValues == 2

DefaultTTL == 300

ZoneName == "example.com."
Names == {"example.com.", "www.example.com."}
Values == <<"1.2.3.4", "5.6.7.8", "9.9.9.9", "7.7.7.7">>
ElbName == "dualstack.elb.amazonaws.com."
ElbZone == "Z1H1FL5HAXXXX"

NilSlice == [notNil |-> FALSE, elems |-> <<>>]
Slice(s) == [notNil |-> TRUE, elems |-> s]

\* the first n example values, in order
FirstValues(n) == [i \in 1..n |-> Values[i]]

\* aliasTarget struct of the configuration; its zero value is "not given"
NoAlias == [HostedZoneID |-> "", DNSName |-> "", EvaluateTargetHealth |-> FALSE]
ElbAlias == [HostedZoneID |-> ElbZone, DNSName |-> ElbName, EvaluateTargetHealth |-> FALSE]

\* resourceRecordSet struct of the configuration
resourceRecordSet(name, type, ttl, alias, rrs) ==
    [TTL |-> ttl, Name |-> name, Type |-> type, AliasTarget |-> alias,
     ResourceRecords |-> rrs]

\* route53.ResourceRecordSet of the SDK
SdkRecordSet(name, type, ttl, alias, rrs) ==
    [Name |-> name, Type |-> type, TTL |-> ttl, AliasTarget |-> alias,
     ResourceRecords |-> rrs]

\* route53.AliasTarget of the SDK
SdkAlias(dns, zoneId, health) ==
    [DNSName |-> dns, HostedZoneId |-> zoneId, EvaluateTargetHealth |-> health]

\* route53.Change of the SDK
Change(action, rrset) == [Action |-> action, ResourceRecordSet |-> rrset]

----------------------------------------------------------------------------
(* getChange *)

\* (*aliasTarget).getAliasDNSName; the receiver is the address of a struct
\* field, never nil
getAliasDNSName(i) == i.DNSName

\* the loop of getChange over configrr.ResourceRecords: append to a nil slice
changeRRof(rrs) ==
    IF Len(rrs.elems) = 0 THEN NilSlice ELSE Slice(rrs.elems)

\* A getChange that looks at the alias target before the literal values.
getChangeAliasFirst(changeType, configrr) ==
    IF getAliasDNSName(configrr.AliasTarget) # ""
    THEN [change |-> <<Change(changeType,
                        SdkRecordSet(configrr.Name, configrr.Type, <<>>,
                            <<SdkAlias(configrr.AliasTarget.DNSName,
                                       configrr.AliasTarget.HostedZoneID,
                                       configrr.AliasTarget.EvaluateTargetHealth)>>,
                            NilSlice))>>,
          err |-> <<>>]
    ELSE IF configrr.ResourceRecords.notNil
    THEN [change |-> <<Change(changeType,
                        SdkRecordSet(configrr.Name, configrr.Type, <<DefaultTTL>>,
                            <<>>, changeRRof(configrr.ResourceRecords)))>>,
          err |-> <<>>]
    ELSE [change |-> <<>>, err |-> <<configrr.Name>>]

\* getChange(changeType, configrr): the change, or the error naming the record
getChange(changeType, configrr) ==
    IF configrr.ResourceRecords.notNil
    THEN [change |-> <<Change(changeType,
                        SdkRecordSet(configrr.Name, configrr.Type, <<DefaultTTL>>,
                            <<>>, changeRRof(configrr.ResourceRecords)))>>,
          err |-> <<>>]
    ELSE IF getAliasDNSName(configrr.AliasTarget) # ""
    THEN [change |-> <<Change(changeType,
                        SdkRecordSet(configrr.Name, configrr.Type, <<>>,
                            <<SdkAlias(configrr.AliasTarget.DNSName,
                                       configrr.AliasTarget.HostedZoneID,
                                       configrr.AliasTarget.EvaluateTargetHealth)>>,
                            NilSlice))>>,
          err |-> <<>>]
    ELSE [change |-> <<>>, err |-> <<configrr.Name>>]

----------------------------------------------------------------------------
(* findRecordsToDelete *)

\* The inner loop of findRecordsToDelete for live record rec, entered at
\* (1-based) position j: the position it leaves j at; Len(rrsets) + 1 is
\* Go's j == len2.
RECURSIVE deleteInner(_, _, _)
deleteInner(rrsets, rec, j) ==
    IF j > Len(rrsets) THEN j
    ELSE IF rec.Type = "NS" \/ rec.Type = "SOA" THEN j
    ELSE IF rrsets[j].Name = rec.Name /\ rrsets[j].Type = rec.Type THEN j
    ELSE deleteInner(rrsets, rec, j + 1)

\* The outer loop of findRecordsToDelete from (1-based) position i on.
RECURSIVE deleteFrom(_, _, _)
deleteFrom(configrr, awsrr, i) ==
    IF i > Len(awsrr) THEN <<>>
    ELSE (IF deleteInner(configrr.ResourceRecordSets, awsrr[i], 1)
                = Len(configrr.ResourceRecordSets) + 1
          THEN <<Change("DELETE", awsrr[i])>>
          ELSE <<>>)
         \o deleteFrom(configrr, awsrr, i + 1)

\* findRecordsToDelete: `for i := 1` starts at the second live record
findRecordsToDelete(configrr, awsrr) == deleteFrom(configrr, awsrr, 2)

----------------------------------------------------------------------------
(* findRecordsToAdd *)

\* The inner loop of findRecordsToAdd for declared record-set crr, entered at
\* (1-based) position j: the position it leaves j at.
RECURSIVE addInner(_, _, _)
addInner(crr, awsrr, j) ==
    IF j > Len(awsrr) THEN j
    ELSE IF crr.Name = awsrr[j].Name /\ crr.Type = awsrr[j].Type THEN j
    ELSE addInner(crr, awsrr, j + 1)

\* An inner loop that, like the outer ones, starts at the second element.
addMatchSkippingFirst(crr, awsrr) == addInner(crr, awsrr, 2)

\* `for j = 0; j < len2; j++` of findRecordsToAdd
addMatch(crr, awsrr) == addInner(crr, awsrr, 1)

\* The outer loop of findRecordsToAdd from (1-based) position i on, diff
\* being what is collected so far. log.Fatalf ends the process at the first
\* getChange error: err names the record-set.
RECURSIVE addFrom(_, _, _, _)
addFrom(configrr, awsrr, i, diff) ==
    IF i > Len(configrr.ResourceRecordSets) THEN [diff |-> diff, err |-> <<>>]
    ELSE IF addMatch(configrr.ResourceRecordSets[i], awsrr) = Len(awsrr) + 1
    THEN LET r == getChange("CREATE", configrr.ResourceRecordSets[i])
         IN  IF r.err # <<>>
             THEN [diff |-> diff, err |-> <<configrr.ResourceRecordSets[i].Name>>]
             ELSE addFrom(configrr, awsrr, i + 1, diff \o r.change)
    ELSE addFrom(configrr, awsrr, i + 1, diff)

\* findRecordsToAdd: `for i := 1` starts at the second declared record-set
findRecordsToAdd(configrr, awsrr) == addFrom(configrr, awsrr, 2, <<>>)

----------------------------------------------------------------------------
(* deltaBuilder *)

\* The first loop of deltaBuilder from declared position k on: an UPSERT for
\* every declared record-set found in the zone, unless the changes hold one
\* for its name and type already.
RECURSIVE upsertFrom(_, _, _, _)
upsertFrom(rrsets, recs, k, acc) ==
    IF k > Len(rrsets) THEN [changes |-> acc, err |-> <<>>]
    ELSE LET crr == rrsets[k]
             found == \E i \in 1..Len(recs) :
                         crr.Name = recs[i].Name /\ crr.Type = recs[i].Type
             exists == \E i \in 1..Len(acc) :
                         /\ acc[i].ResourceRecordSet.Name = crr.Name
                         /\ acc[i].ResourceRecordSet.Type = crr.Type
         IN  IF found /\ ~exists
             THEN LET c == getChange("UPSERT", crr)
                  IN  IF c.err # <<>>
                      THEN [changes |-> acc, err |-> <<crr.Name>>]
                      ELSE upsertFrom(rrsets, recs, k + 1, acc \o c.change)
             ELSE upsertFrom(rrsets, recs, k + 1, acc)

\* The changeset deltaBuilder assembles from the document and the listing:
\* UPSERTs, then findRecordsToDelete, then findRecordsToAdd; err is set when
\* log.Fatalf ended the run.
deltaChanges(cfg, recs) ==
    LET up == upsertFrom(cfg.ResourceRecordSets, recs, 1, <<>>)
    IN  IF up.err # <<>> THEN [changes |-> <<>>, err |-> up.err]
        ELSE LET del == findRecordsToDelete(cfg, recs)
                 add == findRecordsToAdd(cfg, recs)
             IN  IF add.err # <<>> THEN [changes |-> <<>>, err |-> add.err]
                 ELSE [changes |-> up.changes \o del \o add.diff, err |-> <<>>]

----------------------------------------------------------------------------
(* The zone service, as the run sees it *)

HostedZoneId == "Z1"
OtherZoneName == "example.com.au."

\* what ListHostedZonesByName may answer: an error, no zone, the zone of the
\* name asked for (its Id with or without the /hostedzone/ path), or the
\* nearest zone, of another name
LookupAnswers ==
    {[err |-> TRUE, HostedZones |-> <<>>],
     [err |-> FALSE, HostedZones |-> <<>>],
     [err |-> FALSE,
      HostedZones |-> <<[Id |-> [path |-> "/hostedzone/", id |-> HostedZoneId],
                         Name |-> ZoneName]>>],
     [err |-> FALSE,
      HostedZones |-> <<[Id |-> [path |-> "", id |-> HostedZoneId],
                         Name |-> ZoneName]>>],
     [err |-> FALSE,
      HostedZones |-> <<[Id |-> [path |-> "/hostedzone/", id |-> "Z2"],
                         Name |-> OtherZoneName]>>]}

\* getHostedZoneIDByNameLookup on the service's answer hzOut: the zone id and
\* whether an error is returned; fatal when log.Fatalf ended the process.
\* With no zone found it returns "" together with the nil err of the call.
getHostedZoneIDByNameLookup(hzOut, hostedZoneName) ==
    IF hzOut.err THEN [zoneID |-> "", err |-> TRUE, fatal |-> FALSE]
    ELSE IF Len(hzOut.HostedZones) < 1
    THEN [zoneID |-> "", err |-> FALSE, fatal |-> FALSE]
    ELSE IF hzOut.HostedZones[1].Name # hostedZoneName
    THEN [zoneID |-> "", err |-> FALSE, fatal |-> TRUE]
    ELSE \* strings.TrimPrefix(zoneID, "/hostedzone/")
         [zoneID |-> hzOut.HostedZones[1].Id.id, err |-> FALSE, fatal |-> FALSE]

\* the listings of a set of record sets: the service decides the order
Orderings(S) ==
    {s \in [1..Cardinality(S) -> S] : \A i, j \in 1..Cardinality(S) :
                                          i # j => s[i] # s[j]}

SameKey(a, b) == a.Name = b.Name /\ a.Type = b.Type

\* One change applied to the zone z: CREATE adds the record set, UPSERT
\* replaces the one of that name and type, DELETE removes it.
ApplyChange(z, c) ==
    LET rest == {r \in z : ~SameKey(r, c.ResourceRecordSet)}
    IN  IF c.Action = "DELETE" THEN rest ELSE rest \cup {c.ResourceRecordSet}

\* ChangeResourceRecordSets: the batch applied in order
RECURSIVE ApplyBatch(_, _)
ApplyBatch(z, cs) ==
    IF cs = <<>> THEN z ELSE ApplyBatch(ApplyChange(z, Head(cs)), Tail(cs))

----------------------------------------------------------------------------
(* Synchronising a document: main with -c, deltaBuilder *)

\* deltaBuilder, `if config.ZoneID == ""`: the zone id looked up by name
Lookup ==
    /\ pc = "start"
    /\ IF config.ZoneID # ""
       THEN /\ pc' = "resolved"
            /\ UNCHANGED <<config, fatalName, lookedUp>>
       ELSE \E hzOut \in LookupAnswers :
              LET r == getHostedZoneIDByNameLookup(hzOut, config.Name)
              IN  /\ lookedUp' = <<hzOut>>
                  /\ IF r.err \/ r.fatal
                     THEN /\ pc' = "fatal"
                          /\ fatalName' = <<config.Name>>
                          /\ UNCHANGED config
                     ELSE /\ pc' = "resolved"
                          /\ config' = [config EXCEPT !.ZoneID = r.zoneID]
                          /\ UNCHANGED fatalName
    /\ UNCHANGED <<zone, records, changes, submitted, applied, resync, file,
                   listCall, callArg, callRet>>

\* listAllRecordSets returns every record set of the zone, all pages appended
List ==
    /\ pc = "resolved"
    /\ config.ZoneID = HostedZoneId
    /\ listCall' = <<config.ZoneID>>
    /\ \E s \in Orderings(zone) : records' = s
    /\ pc' = "listed"
    /\ UNCHANGED <<config, zone, changes, fatalName, submitted, applied,
                   resync, file, lookedUp, callArg, callRet>>

\* listAllRecordSets returns an error (no such zone, or the transport failed)
ListFail ==
    /\ pc = "resolved"
    /\ listCall' = <<config.ZoneID>>
    /\ pc' = "fatal"
    /\ fatalName' = <<config.Name>>
    /\ UNCHANGED <<config, zone, records, changes, submitted, applied,
                   resync, file, lookedUp, callArg, callRet>>

\* deltaBuilder from its first loop to printReport
Build ==
    /\ pc = "listed"
    /\ LET d == deltaChanges(config, records)
       IN  IF d.err # <<>>
           THEN /\ pc' = "fatal"
                /\ fatalName' = d.err
                /\ UNCHANGED changes
           ELSE /\ pc' = "reported"
                /\ changes' = d.changes
                /\ UNCHANGED fatalName
    /\ UNCHANGED <<config, zone, records, submitted, applied, resync, file,
                   lookedUp, listCall, callArg, callRet>>

\* createResourceRecordSetChange, the service accepting the batch
Submit ==
    /\ pc = "reported"
    /\ submitted' = TRUE
    /\ zone' = ApplyBatch(zone, changes)
    /\ applied' = changes
    /\ pc' = "done"
    /\ UNCHANGED <<config, records, changes, fatalName, resync, file,
                   lookedUp, listCall, callArg, callRet>>

\* createResourceRecordSetChange, the service refusing the batch
SubmitFail ==
    /\ pc = "reported"
    /\ submitted' = TRUE
    /\ pc' = "fatal"
    /\ UNCHANGED <<config, zone, records, changes, fatalName, applied,
                   resync, file, lookedUp, listCall, callArg, callRet>>

\* the same document synchronised again, after a run that was applied
Rerun ==
    /\ pc = "done"
    /\ pc' = "start"
    /\ resync' = TRUE
    /\ records' = <<>>
    /\ changes' = <<>>
    /\ submitted' = FALSE
    /\ lookedUp' = <<>>
    /\ listCall' = <<>>
    /\ UNCHANGED <<config, zone, fatalName, applied, file, callArg, callRet>>

----------------------------------------------------------------------------
(* Extracting the zone into a document: main with -b, configBuildAllConfigs *)

\* A getRoute53ZoneConfig whose type test joins SOA and NS with `&&`: no
\* record set is left out.
getRoute53ZoneConfigKeepingAll(cfg, rrset) ==
    IF rrset.Type = "SOA" /\ rrset.Type = "NS" THEN cfg
    ELSE LET rr ==
               resourceRecordSet(
                   rrset.Name,
                   rrset.Type,
                   IF rrset.TTL # <<>> THEN rrset.TTL[1] ELSE 0,
                   IF rrset.AliasTarget # <<>>
                   THEN [HostedZoneID |-> rrset.AliasTarget[1].HostedZoneId,
                         DNSName |-> rrset.AliasTarget[1].DNSName,
                         EvaluateTargetHealth |->
                             rrset.AliasTarget[1].EvaluateTargetHealth]
                   ELSE NoAlias,
                   IF rrset.ResourceRecords.notNil
                          /\ Len(rrset.ResourceRecords.elems) > 0
                   THEN Slice(rrset.ResourceRecords.elems)
                   ELSE NilSlice)
         IN  [cfg EXCEPT !.ResourceRecordSets = Append(@, rr)]

\* getRoute53ZoneConfig: the document with the live record set appended,
\* unless its type is SOA or NS
getRoute53ZoneConfig(cfg, rrset) ==
    IF rrset.Type = "SOA" \/ rrset.Type = "NS" THEN cfg
    ELSE LET rr ==
               resourceRecordSet(
                   rrset.Name,
                   rrset.Type,
                   IF rrset.TTL # <<>> THEN rrset.TTL[1] ELSE 0,
                   IF rrset.AliasTarget # <<>>
                   THEN [HostedZoneID |-> rrset.AliasTarget[1].HostedZoneId,
                         DNSName |-> rrset.AliasTarget[1].DNSName,
                         EvaluateTargetHealth |->
                             rrset.AliasTarget[1].EvaluateTargetHealth]
                   ELSE NoAlias,
                   IF rrset.ResourceRecords.notNil
                          /\ Len(rrset.ResourceRecords.elems) > 0
                   THEN Slice(rrset.ResourceRecords.elems)
                   ELSE NilSlice)
         IN  [cfg EXCEPT !.ResourceRecordSets = Append(@, rr)]

\* `for _, rrset := range rrsets { getRoute53ZoneConfig(&config, rrset) }`
RECURSIVE foldZoneConfig(_, _)
foldZoneConfig(cfg, rrsets) ==
    IF rrsets = <<>> THEN cfg
    ELSE foldZoneConfig(getRoute53ZoneConfig(cfg, Head(rrsets)), Tail(rrsets))

\* yaml.Marshal of a record-set under the struct tags: AliasTarget and
\* ResourceRecords are omitempty (left out when zero, or of length 0), TTL is
\* always written. A field left out is <<>> here.
yamlRecordSet(rr) ==
    [TTL |-> rr.TTL, Name |-> rr.Name, Type |-> rr.Type,
     AliasTarget |-> IF rr.AliasTarget = NoAlias THEN <<>> ELSE <<rr.AliasTarget>>,
     ResourceRecords |-> IF Len(rr.ResourceRecords.elems) = 0 THEN <<>>
                         ELSE <<rr.ResourceRecords.elems>>]

yamlMarshal(cfg) ==
    [Name |-> cfg.Name, ZoneID |-> cfg.ZoneID,
     ResourceRecordSets |->
         [i \in 1..Len(cfg.ResourceRecordSets) |->
             yamlRecordSet(cfg.ResourceRecordSets[i])]]

\* yaml.Unmarshal into a zero route53Zone: a field left out keeps its zero
\* value (a nil slice, a zero struct)
yamlUnmarshal(y) ==
    [Name |-> y.Name, ZoneID |-> y.ZoneID,
     ResourceRecordSets |->
         [i \in 1..Len(y.ResourceRecordSets) |->
             LET e == y.ResourceRecordSets[i]
             IN  resourceRecordSet(e.Name, e.Type, e.TTL,
                     IF e.AliasTarget = <<>> THEN NoAlias ELSE e.AliasTarget[1],
                     IF e.ResourceRecords = <<>> THEN NilSlice
                     ELSE Slice(e.ResourceRecords[1]))]]

\* the zero route53Zone (`var config route53Zone`)
ZeroConfig == [Name |-> "", ZoneID |-> "", ResourceRecordSets |-> <<>>]

\* configBuildAllConfigs: the record sets of the zone listed
BuildList ==
    /\ pc = "build"
    /\ \E s \in Orderings(zone) : records' = s
    /\ pc' = "buildlisted"
    /\ UNCHANGED <<config, zone, changes, fatalName, submitted, applied,
                   resync, file, lookedUp, listCall, callArg, callRet>>

\* configBuildAllConfigs: listAllRecordSets returns an error
BuildListFail ==
    /\ pc = "build"
    /\ pc' = "fatal"
    /\ fatalName' = <<ZoneName>>
    /\ UNCHANGED <<config, zone, records, changes, submitted, applied,
                   resync, file, lookedUp, listCall, callArg, callRet>>

\* configBuildAllConfigs: the document built from the listing and written
BuildConfig ==
    /\ pc = "buildlisted"
    /\ config' = foldZoneConfig([ZeroConfig EXCEPT !.Name = ZoneName], records)
    /\ file' = <<yamlMarshal(config')>>
    /\ pc' = "written"
    /\ UNCHANGED <<zone, records, changes, fatalName, submitted, applied,
                   resync, lookedUp, listCall, callArg, callRet>>

\* a later invocation with -c on the written file: readConfig
ReadConfig ==
    /\ pc = "written"
    /\ config' = yamlUnmarshal(file[1])
    /\ records' = <<>>
    /\ pc' = "start"
    /\ UNCHANGED <<zone, changes, fatalName, submitted, applied, resync,
                   file, lookedUp, listCall, callArg, callRet>>

----------------------------------------------------------------------------
(* getChange called on its own *)

CallGetChange ==
    /\ pc = "call"
    /\ callRet' = <<getChange(callArg[1].changeType, callArg[1].configrr)>>
    /\ pc' = "returned"
    /\ UNCHANGED <<config, zone, records, changes, fatalName, submitted,
                   applied, resync, file, lookedUp, listCall, callArg>>

----------------------------------------------------------------------------
(* Inputs *)

SeqsUpTo(S, n) == UNION {[1..k -> S] : k \in 0..n}

DeclaredTypes == {"A", "NS"}

\* what a declared record-set carries: literal values with a TTL, an alias
\* target, or neither
DeclaredShapes ==
    {[TTL |-> 600, AliasTarget |-> NoAlias, ResourceRecords |-> Slice(FirstValues(1))],
     [TTL |-> 0, AliasTarget |-> ElbAlias, ResourceRecords |-> NilSlice],
     [TTL |-> 0, AliasTarget |-> NoAlias, ResourceRecords |-> NilSlice]}

DeclaredRecordSets ==
    {resourceRecordSet(n, t, s.TTL, s.AliasTarget, s.ResourceRecords) :
        n \in Names, t \in DeclaredTypes, s \in DeclaredShapes}

Documents ==
    {[Name |-> ZoneName, ZoneID |-> HostedZoneId, ResourceRecordSets |-> rs] :
        rs \in SeqsUpTo(DeclaredRecordSets, MaxDeclared)}

\* the record sets a zone may hold: A records with values or an alias, NS
\* records, and the SOA record of the apex
LiveRecordSets ==
    {SdkRecordSet(n, "A", <<600>>, <<>>, Slice(FirstValues(1))) : n \in Names}
    \cup {SdkRecordSet(n, "A", <<>>, <<SdkAlias(ElbName, ElbZone, FALSE)>>, NilSlice) :
            n \in Names}
    \cup {SdkRecordSet(n, "NS", <<600>>, <<>>, Slice(FirstValues(1))) : n \in Names}
    \cup {SdkRecordSet(ZoneName, "SOA", <<600>>, <<>>, Slice(FirstValues(1)))}

UniqueKeys(S) == \A a, b \in S : SameKey(a, b) => a = b

Zones ==
    {z \in SUBSET LiveRecordSets : Cardinality(z) <= MaxLive /\ UniqueKeys(z)}

Init ==
    /\ config \in Documents
    /\ zone \in Zones
    /\ records = <<>>
    /\ changes = <<>>
    /\ pc = "start"
    /\ fatalName = <<>>
    /\ submitted = FALSE
    /\ applied = <<>>
    /\ resync = FALSE
    /\ lookedUp = <<>>
    /\ listCall = <<>>
    /\ file = <<>>
    /\ callArg = <<>>
    /\ callRet = <<>>

Next == Lookup \/ List \/ ListFail \/ Build \/ Submit \/ SubmitFail

Spec == Init /\ [][Next]_vars

\* Synchronising the same document repeatedly
MaxResyncDeclared == 2
MaxResyncLive == 2

\* the documents synchronised repeatedly: record-sets with literal values, or
\* with neither values nor alias target
ResyncRecordSets == {rr \in DeclaredRecordSets : rr.AliasTarget = NoAlias}

ResyncDocuments ==
    {[Name |-> ZoneName, ZoneID |-> HostedZoneId, ResourceRecordSets |-> rs] :
        rs \in SeqsUpTo(ResyncRecordSets, MaxResyncDeclared)}

InitResync ==
    /\ config \in ResyncDocuments
    /\ zone \in {z \in SUBSET LiveRecordSets :
                    Cardinality(z) <= MaxResyncLive /\ UniqueKeys(z)}
    /\ records = <<>>
    /\ changes = <<>>
    /\ pc = "start"
    /\ fatalName = <<>>
    /\ submitted = FALSE
    /\ applied = <<>>
    /\ resync = FALSE
    /\ lookedUp = <<>>
    /\ listCall = <<>>
    /\ file = <<>>
    /\ callArg = <<>>
    /\ callRet = <<>>

NextResync == Lookup \/ List \/ ListFail \/ Build \/ Submit \/ SubmitFail \/ Rerun

SpecResync == InitResync /\ [][NextResync]_vars

\* Extracting a zone, then synchronising the written document to it
MaxExtractLive == 3

\* the zone may also hold a record set of several values with the default TTL
ExtractRecordSets ==
    LiveRecordSets
    \cup {SdkRecordSet(ZoneName, "MX", <<DefaultTTL>>, <<>>, Slice(FirstValues(2)))}

InitExtract ==
    /\ config = ZeroConfig
    /\ zone \in {z \in SUBSET ExtractRecordSets :
                    Cardinality(z) <= MaxExtractLive /\ UniqueKeys(z)}
    /\ records = <<>>
    /\ changes = <<>>
    /\ pc = "build"
    /\ fatalName = <<>>
    /\ submitted = FALSE
    /\ applied = <<>>
    /\ resync = FALSE
    /\ lookedUp = <<>>
    /\ listCall = <<>>
    /\ file = <<>>
    /\ callArg = <<>>
    /\ callRet = <<>>

NextExtract ==
    \/ BuildList \/ BuildListFail \/ BuildConfig \/ ReadConfig
    \/ Lookup \/ List \/ ListFail \/ Build \/ Submit \/ SubmitFail

SpecExtract == InitExtract /\ [][NextExtract]_vars

\* Synchronising a document that gives no ZoneID: the zone is looked up by
\* name
MaxLookupDeclared == 1

LookupDocuments ==
    {[Name |-> ZoneName, ZoneID |-> "", ResourceRecordSets |-> rs] :
        rs \in SeqsUpTo(DeclaredRecordSets, MaxLookupDeclared)}

InitLookup ==
    /\ config \in LookupDocuments
    /\ zone \in Zones
    /\ records = <<>>
    /\ changes = <<>>
    /\ pc = "start"
    /\ fatalName = <<>>
    /\ submitted = FALSE
    /\ applied = <<>>
    /\ resync = FALSE
    /\ lookedUp = <<>>
    /\ listCall = <<>>
    /\ file = <<>>
    /\ callArg = <<>>
    /\ callRet = <<>>

NextLookup == Lookup \/ List \/ ListFail \/ Build \/ Submit \/ SubmitFail

SpecLookup == InitLookup /\ [][NextLookup]_vars

\* getChange on every record-set and change type
\* the change types getChange is called with (findRecordsToAdd, deltaBuilder)
ChangeTypes == {"CREATE", "UPSERT"}

AliasTargets ==
    {NoAlias, ElbAlias,
     [HostedZoneID |-> ElbZone, DNSName |-> "", EvaluateTargetHealth |-> TRUE]}

AllRecordSets ==
    {resourceRecordSet(n, t, ttl, a, rrs) :
        n \in Names, t \in DeclaredTypes, ttl \in {0, 600}, a \in AliasTargets,
        rrs \in {NilSlice} \cup {Slice(FirstValues(k)) : k \in 0..MaxValues}}

InitChange ==
    /\ callArg \in {<<[changeType |-> ct, configrr |-> rr]>> :
                        ct \in ChangeTypes, rr \in AllRecordSets}
    /\ callRet = <<>>
    /\ pc = "call"
    /\ config = ZeroConfig
    /\ zone = {}
    /\ records = <<>>
    /\ changes = <<>>
    /\ fatalName = <<>>
    /\ submitted = FALSE
    /\ applied = <<>>
    /\ resync = FALSE
    /\ lookedUp = <<>>
    /\ listCall = <<>>
    /\ file = <<>>

NextChange == CallGetChange

SpecChange == InitChange /\ [][NextChange]_vars

----------------------------------------------------------------------------
(* Properties *)

Key(r) == <<r.Name, r.Type>>
DeclaredKeys == {Key(config.ResourceRecordSets[k]) : k \in 1..Len(config.ResourceRecordSets)}
ListedKeys == {Key(records[i]) : i \in 1..Len(records)}
ChangesOf(action) ==
    {i \in 1..Len(changes) : changes[i].Action = action}
Infrastructure(r) == r.Type = "NS" \/ r.Type = "SOA"

\* a declared record-set getChange can build: it has literal values or an
\* alias target DNS name
Buildable(rr) ==
    Len(rr.ResourceRecords.elems) > 0 \/ rr.AliasTarget.DNSName # ""

\* C1: the changeset of a run holds no DELETE change whose record set is of
\* type NS or SOA, whatever the document and the listing.
C1_NoInfrastructureDelete ==
    \A i \in ChangesOf("DELETE") : ~Infrastructure(changes[i].ResourceRecordSet)

\* C2: the changeset of a run holds at most one change per (Name, Type).
C2_OneChangePerKey ==
    \A i, j \in 1..Len(changes) :
        i # j => Key(changes[i].ResourceRecordSet) # Key(changes[j].ResourceRecordSet)

\* C3 as claimed: a document synchronised again to the zone its own changeset
\* was applied to yields the empty changeset.
C3_ResyncIsEmpty ==
    (resync /\ pc = "reported") => changes = <<>>

\* C3 as amended: a document synchronised again to the zone its own changeset
\* was applied to yields no CREATE change, and one UPSERT for each declared
\* key the zone holds (so the changeset is empty only when the zone holds no
\* declared key).
C3_ResyncCreatesNothing ==
    (resync /\ pc = "reported") =>
        /\ ChangesOf("CREATE") = {}
        /\ \A key \in DeclaredKeys \cap ListedKeys :
              Cardinality({i \in ChangesOf("UPSERT") :
                              Key(changes[i].ResourceRecordSet) = key}) = 1

\* C3's case: the first run created and deleted record sets, its batch was
\* applied, and the second run has assembled a changeset that is not empty.
C3_Witness ==
    /\ resync
    /\ pc = "reported"
    /\ \E i \in 1..Len(applied) : applied[i].Action = "CREATE"
    /\ \E i \in 1..Len(applied) : applied[i].Action = "DELETE"
    /\ changes # <<>>

\* C4: a run that assembles its changeset has, for every declared record-set
\* (at any position, the first included) that getChange can build and that
\* has no live record of its name and type, a CREATE change carrying its
\* name, type and values.
C4_CreateForEveryMissing ==
    pc = "reported" =>
        \A k \in 1..Len(config.ResourceRecordSets) :
            LET rr == config.ResourceRecordSets[k]
            IN  (Buildable(rr) /\ Key(rr) \notin ListedKeys) =>
                    \E i \in ChangesOf("CREATE") :
                        /\ Key(changes[i].ResourceRecordSet) = Key(rr)
                        /\ changes[i].ResourceRecordSet.ResourceRecords.elems
                               = rr.ResourceRecords.elems

\* C5: a run that assembles its changeset has exactly one DELETE change for
\* every listed record (at any position, the first included) that is neither
\* NS nor SOA and whose name and type are not declared, and no DELETE for a
\* listed record whose name and type are declared.
C5_DeleteForEveryUndeclared ==
    pc = "reported" =>
        \A n \in 1..Len(records) :
            LET deletes == {i \in ChangesOf("DELETE") :
                               changes[i].ResourceRecordSet = records[n]}
            IN  /\ (~Infrastructure(records[n]) /\ Key(records[n]) \notin DeclaredKeys)
                       => Cardinality(deletes) = 1
                /\ Key(records[n]) \in DeclaredKeys => deletes = {}

\* C6: the document extracted from a zone, synchronised to the same zone,
\* yields only UPSERT changes, each with the content (TTL, alias target,
\* values) of the zone's record set of the same name and type.
C6_RoundTripKeepsContent ==
    (file # <<>> /\ pc = "reported") =>
        \A i \in 1..Len(changes) :
            /\ changes[i].Action = "UPSERT"
            /\ changes[i].ResourceRecordSet \in zone

\* C7: a literal-value change built by getChange carries the declared TTL
\* when one is declared and 300 when none is; an alias change carries no TTL.
C7_DeclaredTtlCarried ==
    (pc = "returned" /\ callRet[1].change # <<>>) =>
        LET rr == callArg[1].configrr
            out == callRet[1].change[1].ResourceRecordSet
        IN  IF out.AliasTarget # <<>>
            THEN out.TTL = <<>>
            ELSE out.TTL = <<IF rr.TTL # 0 THEN rr.TTL ELSE DefaultTTL>>

\* C8: for a record-set with literal values and a populated alias target,
\* getChange returns, for every change type, a change of that type with the
\* declared values in the declared order and no alias target.
C8_ValuesBeforeAlias ==
    (/\ pc = "returned"
     /\ Len(callArg[1].configrr.ResourceRecords.elems) > 0
     /\ callArg[1].configrr.AliasTarget # NoAlias) =>
        /\ callRet[1].err = <<>>
        /\ Len(callRet[1].change) = 1
        /\ LET c == callRet[1].change[1]
           IN  /\ c.Action = callArg[1].changeType
               /\ c.ResourceRecordSet.Name = callArg[1].configrr.Name
               /\ c.ResourceRecordSet.Type = callArg[1].configrr.Type
               /\ c.ResourceRecordSet.ResourceRecords.elems
                      = callArg[1].configrr.ResourceRecords.elems
               /\ c.ResourceRecordSet.AliasTarget = <<>>

\* C8's case: getChange has returned for a record-set with two values and an
\* alias target with a DNS name.
C8_Witness ==
    /\ pc = "returned"
    /\ Len(callArg[1].configrr.ResourceRecords.elems) = 2
    /\ callArg[1].configrr.AliasTarget = ElbAlias
    /\ callArg[1].changeType = "UPSERT"

\* C9: for a record-set with no literal values (the list absent, or present
\* with no entry) and an empty alias DNS name, getChange returns an error
\* naming the record-set and no change.
C9_EmptyRecordSetIsAnError ==
    (/\ pc = "returned"
     /\ Len(callArg[1].configrr.ResourceRecords.elems) = 0
     /\ callArg[1].configrr.AliasTarget.DNSName = "") =>
        /\ callRet[1].err = <<callArg[1].configrr.Name>>
        /\ callRet[1].change = <<>>

\* C10: when the document holds a record-set with neither literal values nor
\* an alias DNS name, at any position and matched by a live record or not,
\* the run never invokes createResourceRecordSetChange and does not complete.
C10_MalformedAbortsRun ==
    (\E k \in 1..Len(config.ResourceRecordSets) :
        ~Buildable(config.ResourceRecordSets[k])) =>
            /\ pc # "done"
            /\ ~submitted

\* the answer of the name lookup holds a zone of exactly the declared name
ExactZoneFound ==
    /\ lookedUp # <<>>
    /\ ~lookedUp[1].err
    /\ Len(lookedUp[1].HostedZones) >= 1
    /\ lookedUp[1].HostedZones[1].Name = config.Name

\* C11: when the zone id is looked up by name and the answer holds no zone,
\* or a zone of another name, the run invokes neither listAllRecordSets nor
\* createResourceRecordSetChange.
C11_NoZoneNoListing ==
    (lookedUp # <<>> /\ ~ExactZoneFound) =>
        /\ listCall = <<>>
        /\ ~submitted

\* the listed record sets that are neither NS nor SOA, in listing order
UserRecords == SelectSeq(records, LAMBDA r : ~Infrastructure(r))

\* C12: the document built by folding getRoute53ZoneConfig over a listing
\* holds exactly the listed record sets that are neither SOA nor NS, in
\* listing order, each with the live name, type, TTL (0 when absent), alias
\* fields (the zero alias when absent) and literal values in order. Every
\* field of the document's record-sets is fixed by the listing, so building it
\* again from the same listing gives the same document.
C12_ExtractKeepsUserRecords ==
    pc = "written" =>
        /\ Len(config.ResourceRecordSets) = Len(UserRecords)
        /\ \A i \in 1..Len(UserRecords) :
              LET rr == config.ResourceRecordSets[i]
                  live == UserRecords[i]
              IN  /\ rr.Name = live.Name
                  /\ rr.Type = live.Type
                  /\ rr.TTL = (IF live.TTL = <<>> THEN 0 ELSE live.TTL[1])
                  /\ IF live.AliasTarget = <<>> THEN rr.AliasTarget = NoAlias
                     ELSE /\ rr.AliasTarget.DNSName = live.AliasTarget[1].DNSName
                          /\ rr.AliasTarget.HostedZoneID
                                 = live.AliasTarget[1].HostedZoneId
                          /\ rr.AliasTarget.EvaluateTargetHealth
                                 = live.AliasTarget[1].EvaluateTargetHealth
                  /\ rr.ResourceRecords.elems = live.ResourceRecords.elems
                  /\ rr.ResourceRecords.notNil
                         = (Len(live.ResourceRecords.elems) > 0)

\* C12's case: a listing of three record sets, the first an NS record, then
\* an alias and a record set of two values, has been folded into a document.
C12_Witness ==
    /\ pc = "written"
    /\ Len(records) = 3
    /\ records[1].Type = "NS"
    /\ records[2].AliasTarget # <<>>
    /\ Len(records[3].ResourceRecords.elems) = 2
    /\ Len(config.ResourceRecordSets) = 2

====
